---- MODULE Spec2Model ----
(***************************************************************************)
(* The hardhat task sendBatchTransfer (src/src/tasks/sendBatchTransfer.ts) *)
(* as a state machine: preflight checks, the batch loop with its two       *)
(* suspension points, parseAddressesFile and formatWithDecimals.           *)
(*                                                                         *)
(* JavaScript numbers are IEEE-754 doubles.  The three places where the    *)
(* task computes with fractions (quantity * amount, and the two            *)
(* Math.random() draws) are modelled with exact double arithmetic on       *)
(* arbitrary-precision naturals, because the model checker's integers are  *)
(* 32 bits wide.  Exponent overflow and subnormals are out of reach of the *)
(* values used here and are not modelled.                                  *)
(***************************************************************************)
EXTENDS Integers, Sequences, FiniteSets, TLC

(***************************************************************************)
(* Arbitrary-precision naturals: little-endian sequences of limbs in       *)
(* 0..Base-1 with no zero limb at the high end (<<>> is 0).                *)
(***************************************************************************)
LimbBits == 3 * 5
Base == 2 ^ LimbBits

Max(a, b) == IF a >= b THEN a ELSE b
Min(a, b) == IF a <= b THEN a ELSE b

Lb(a, k) == IF 1 <= k /\ k <= Len(a) THEN a[k] ELSE 0

RECURSIVE NTrim(_)
NTrim(a) ==
  IF a # <<>> /\ a[Len(a)] = 0 THEN NTrim(SubSeq(a, 1, Len(a) - 1)) ELSE a

RECURSIVE NFromInt(_)
NFromInt(n) == IF n = 0 THEN <<>> ELSE <<n % Base>> \o NFromInt(n \div Base)

RECURSIVE NToInt(_)
NToInt(a) == IF a = <<>> THEN 0 ELSE a[1] + Base * NToInt(Tail(a))

\* whether a + b carries into limb k
NCarry(a, b, k) ==
  \E j \in 1..(k - 1) :
    /\ Lb(a, j) + Lb(b, j) >= Base
    /\ \A t \in (j + 1)..(k - 1) : Lb(a, t) + Lb(b, t) = Base - 1

NAdd(a, b) ==
  IF a = <<>> THEN b
  ELSE IF b = <<>> THEN a
  ELSE
  NTrim([k \in 1..(Max(Len(a), Len(b)) + 1) |->
           (Lb(a, k) + Lb(b, k) + (IF NCarry(a, b, k) THEN 1 ELSE 0)) % Base])

\* whether a - b borrows from limb k
NBorrow(a, b, k) ==
  \E j \in 1..(k - 1) :
    /\ Lb(a, j) < Lb(b, j)
    /\ \A t \in (j + 1)..(k - 1) : Lb(a, t) = Lb(b, t)

\* a - b for a >= b
NSub(a, b) ==
  IF b = <<>> THEN a
  ELSE
  NTrim([k \in 1..Len(a) |->
           (Lb(a, k) - Lb(b, k) - (IF NBorrow(a, b, k) THEN 1 ELSE 0)) % Base])

\* the highest limb where a and b differ, a # b, n the longer length
NTopDiff(a, b, n) ==
  CHOOSE h \in 1..n :
    /\ Lb(a, h) # Lb(b, h)
    /\ \A j \in (h + 1)..n : Lb(a, j) = Lb(b, j)

NCmpAt(a, b, k) == IF Lb(a, k) < Lb(b, k) THEN 0 - 1 ELSE 1

\* -1, 0 or 1 as a < b, a = b or a > b
NCmp(a, b) ==
  IF a = b THEN 0 ELSE NCmpAt(a, b, NTopDiff(a, b, Max(Len(a), Len(b))))

NShiftLimbs(a, n) == IF a = <<>> THEN a ELSE [j \in 1..n |-> 0] \o a

\* a * m for 0 <= m < Base
NMulSmall(a, m) ==
  IF a = <<>> \/ m = 0 THEN <<>>
  ELSE
  NAdd(NTrim([k \in 1..Len(a) |-> (a[k] * m) % Base]),
       NShiftLimbs(NTrim([k \in 1..Len(a) |-> (a[k] * m) \div Base]), 1))

RECURSIVE NMulFrom(_, _, _)
NMulFrom(a, b, k) ==
  IF k > Len(b) THEN <<>>
  ELSE NAdd(NShiftLimbs(NMulSmall(a, b[k]), k - 1), NMulFrom(a, b, k + 1))

NMul(a, b) ==
  IF a = <<>> \/ b = <<>> THEN <<>>
  ELSE IF Len(a) >= Len(b) THEN NMulFrom(a, b, 1) ELSE NMulFrom(b, a, 1)

\* a * 2^n
NShl(a, n) == NShiftLimbs(NMulSmall(a, 2 ^ (n % LimbBits)), n \div LimbBits)

\* floor(a / 2^n)
NShr(a, n) ==
  LET w == n \div LimbBits
      s == n % LimbBits
  IN  IF a = <<>> THEN a ELSE
      NTrim([k \in 1..(Len(a) - w) |->
               (Lb(a, k + w) \div (2 ^ s))
               + (Lb(a, k + w + 1) % (2 ^ s)) * (2 ^ (LimbBits - s))])

\* a mod 2^n
NLowBits(a, n) ==
  LET w == n \div LimbBits
  IN  IF a = <<>> THEN a ELSE
      NTrim([k \in 1..Min(Len(a), w + 1) |->
               IF k <= w THEN a[k] ELSE a[k] % (2 ^ (n % LimbBits))])

RECURSIVE SmallBitLen(_)
SmallBitLen(x) == IF x = 0 THEN 0 ELSE 1 + SmallBitLen(x \div 2)

NBitLen(a) ==
  IF a = <<>> THEN 0 ELSE LimbBits * (Len(a) - 1) + SmallBitLen(a[Len(a)])

\* bit k of a, k = 1 the lowest
NBit(a, k) ==
  (Lb(a, ((k - 1) \div LimbBits) + 1) \div (2 ^ ((k - 1) % LimbBits))) % 2

RECURSIVE NRemFrom(_, _, _)
\* the number written by the limbs k.. of a, modulo d (0 < d < Base)
NRemFrom(a, d, k) ==
  IF k > Len(a) THEN 0 ELSE (NRemFrom(a, d, k + 1) * Base + a[k]) % d

\* quotient and remainder of a by d, 0 < d < Base
NDivSmall(a, d) ==
  IF a = <<>> THEN [q |-> <<>>, r |-> 0]
  ELSE
  [q |-> NTrim([k \in 1..Len(a) |->
                  (NRemFrom(a, d, k + 1) * Base + a[k]) \div d]),
   r |-> NRemFrom(a, d, 1)]

RECURSIVE NPow10(_)
NPow10(n) ==
  IF n <= 4 THEN NFromInt(10 ^ n) ELSE NMulSmall(NPow10(n - 4), 10 ^ 4)

RECURSIVE NDivPow10(_, _)
NDivJoin(rest, exact) == [q |-> rest.q, exact |-> rest.exact /\ exact]
NDivStep(d, p) == NDivJoin(NDivPow10(d.q, p), d.r = 0)

\* floor(a / 10^p), and whether the division is exact
NDivPow10(a, p) ==
  IF p = 0 THEN [q |-> a, exact |-> TRUE]
  ELSE NDivStep(NDivSmall(a, 10 ^ Min(p, 4)), p - Min(p, 4))

(***************************************************************************)
(* IEEE-754 binary64 values: sign * m * 2^e with m of exactly              *)
(* DoublePrecision bits (or m = 0), rounded to nearest, ties to even.      *)
(***************************************************************************)
DoublePrecision == 53

FZero == [sign |-> 1, m |-> <<>>, e |-> 0]

\* q * 2^e, where q has DoublePrecision bits or one more (then q = 2^53)
FRoundFit(sign, q, e) ==
  IF NBitLen(q) > DoublePrecision
  THEN [sign |-> sign, m |-> NShr(q, 1), e |-> e + 1]
  ELSE [sign |-> sign, m |-> q, e |-> e]

\* q and the comparison of the part cut off with one half
FRoundCut(sign, q, cmp, e, sticky) ==
  FRoundFit(sign,
            IF cmp > 0 \/ (cmp = 0 /\ (sticky \/ NBit(q, 1) = 1))
            THEN NAdd(q, <<1>>) ELSE q,
            e)

FRoundLen(sign, m, e, sticky, len) ==
  IF len <= DoublePrecision
  THEN [sign |-> sign, m |-> NShl(m, DoublePrecision - len),
        e |-> e - (DoublePrecision - len)]
  ELSE FRoundCut(sign, NShr(m, len - DoublePrecision),
                 NCmp(NLowBits(m, len - DoublePrecision),
                      NShl(<<1>>, len - DoublePrecision - 1)),
                 e + (len - DoublePrecision), sticky)

\* the double nearest to sign * (m + d) * 2^e, with 0 < d < 1 iff sticky
FRound(sign, m, e, sticky) ==
  IF m = <<>> THEN FZero ELSE FRoundLen(sign, m, e, sticky, NBitLen(m))

FFromQuotient(d, sh) == FRound(1, d.q, 0 - sh, ~d.exact)
FFromShifted(s, p, sh) == FFromQuotient(NDivPow10(NShl(s, sh), p), sh)

\* the double nearest to s * 10^p, s a natural: how a decimal literal is read
FFromDecimal(s, p) ==
  IF p >= 0 THEN FRound(1, NMul(s, NPow10(p)), 0, FALSE)
  ELSE FFromShifted(s, 0 - p,
         Max(0, DoublePrecision + 3 + NBitLen(NPow10(0 - p)) - NBitLen(s)))

FFromInt(n) ==
  FRound(IF n >= 0 THEN 1 ELSE 0 - 1,
         NFromInt(IF n >= 0 THEN n ELSE 0 - n), 0, FALSE)

\* x * y
FMul(x, y) == FRound(x.sign * y.sign, NMul(x.m, y.m), x.e + y.e, FALSE)

\* sign and magnitude of xs * a + ys * b, cmp comparing a with b
FAddSigned(xs, ys, a, b, e, cmp) ==
  FRound(IF xs = ys \/ cmp >= 0 THEN xs ELSE ys,
         IF xs = ys THEN NAdd(a, b)
         ELSE IF cmp >= 0 THEN NSub(a, b) ELSE NSub(b, a),
         e, FALSE)

FAddAligned(xs, ys, a, b, e) == FAddSigned(xs, ys, a, b, e, NCmp(a, b))

FAddAt(x, y, e) ==
  FAddAligned(x.sign, y.sign, NShl(x.m, x.e - e), NShl(y.m, y.e - e), e)

\* x + y
FAdd(x, y) ==
  IF x.m = <<>> THEN y
  ELSE IF y.m = <<>> THEN x
  ELSE FAddAt(x, y, Min(x.e, y.e))

\* Math.floor(x), as an integer
FFloor(x) ==
  IF x.m = <<>> THEN 0
  ELSE IF x.e >= 0 THEN x.sign * NToInt(NShl(x.m, x.e))
  ELSE x.sign * NToInt(NShr(x.m, 0 - x.e))
       - (IF x.sign < 0 /\ NLowBits(x.m, 0 - x.e) # <<>> THEN 1 ELSE 0)

(***************************************************************************)
(* Strings are sequences of one-character strings.                         *)
(***************************************************************************)
Repeat(c, n) == [j \in 1..n |-> c]

DigitChars == <<"0", "1", "2", "3", "4", "5", "6", "7", "8", "9">>

IsDigit(c) == \E d \in 1..Len(DigitChars) : DigitChars[d] = c

DigitValue(c) == (CHOOSE d \in 1..Len(DigitChars) : DigitChars[d] = c) - 1

\* the number of decimal digits of the natural a > 0
NDigitCount(a) ==
  CHOOSE d \in 1..(NBitLen(a) + 1) :
    /\ NCmp(a, NPow10(d)) < 0
    /\ d = 1 \/ NCmp(a, NPow10(d - 1)) >= 0

NDigitsOf(a, nd) ==
  [j \in 1..nd |-> DigitChars[NDivSmall(NDivPow10(a, nd - j).q, 10).r + 1]]

\* the decimal digits of the natural a > 0, most significant first
NDigits(a) == NDigitsOf(a, NDigitCount(a))

RECURSIVE NFromDigits(_)
\* the natural written by a sequence of digit characters
NFromDigits(str) ==
  IF str = <<>> THEN <<>>
  ELSE IF Len(str) >= 3
  THEN NAdd(NMulSmall(NFromDigits(SubSeq(str, 1, Len(str) - 3)), 10 ^ 3),
            NFromInt(100 * DigitValue(str[Len(str) - 2])
                     + 10 * DigitValue(str[Len(str) - 1])
                     + DigitValue(str[Len(str)])))
  ELSE NAdd(NMulSmall(NFromDigits(SubSeq(str, 1, Len(str) - 1)), 10),
            NFromInt(DigitValue(str[Len(str)])))

RECURSIVE StripZeros(_)
StripZeros(str) ==
  IF str # <<>> /\ str[Len(str)] = "0"
  THEN StripZeros(SubSeq(str, 1, Len(str) - 1)) ELSE str

(***************************************************************************)
(* Number::toString: the shortest decimal that reads back as the same      *)
(* double, laid out as ECMAScript lays it out.                             *)
(***************************************************************************)
FNum(x) == IF x.e >= 0 THEN NShl(x.m, x.e) ELSE x.m
FDenBits(x) == IF x.e >= 0 THEN 0 ELSE 0 - x.e

\* whether x < 10^n, for a double x > 0
BelowPow10(x, n) ==
  NCmp(NMul(FNum(x), NPow10(Max(0 - n, 0))),
       NShl(NPow10(Max(n, 0)), FDenBits(x))) < 0

ReadsBackCmp(x, k) == k < 0 \/ (k = 0 /\ NBit(x.m, 1) = 0)

\* twice the distance of L and R, four times below a power of two
ReadsBackGap(x, L, R, ge) ==
  NMulSmall(IF ge THEN NSub(L, R) ELSE NSub(R, L),
            IF ge \/ x.m # NShl(<<1>>, DoublePrecision - 1) THEN 2 ELSE 4)

ReadsBackAt(x, L, R, U) ==
  ReadsBackCmp(x, NCmp(ReadsBackGap(x, L, R, NCmp(L, R) >= 0), U))

\* whether the decimal s * 10^(-p) reads back as the double x > 0: it lies
\* within half a unit in the last place of x (a quarter below a power of two),
\* the bound included when the mantissa of x is even
ReadsBack(x, s, p) ==
  ReadsBackAt(x, NShl(NMul(s, NPow10(Max(0 - p, 0))), FDenBits(x)),
              NMul(FNum(x), NPow10(Max(p, 0))),
              NShl(NPow10(Max(p, 0)), Max(x.e, 0)))

TryRound(q, cmp) ==
  IF cmp > 0 \/ (cmp = 0 /\ NBit(q, 1) = 1) THEN NAdd(q, <<1>>) ELSE q

TryCheck(x, s, p) == IF s # <<>> /\ ReadsBack(x, s, p) THEN s ELSE <<>>

TryQuotient(x, p, A, B, q) ==
  TryCheck(x, TryRound(q, NCmp(NMulSmall(NSub(A, NMul(q, B)), 2), B)), p)

TryRatio(x, p, A, B) ==
  TryQuotient(x, p, A, B, NDivPow10(NShr(A, FDenBits(x)), Max(0 - p, 0)).q)

\* the natural s nearest to x * 10^p if s * 10^(-p) reads back as x, else <<>>
TryDigits(x, p) ==
  TryRatio(x, p, NMul(FNum(x), NPow10(Max(p, 0))),
           NShl(NPow10(Max(0 - p, 0)), FDenBits(x)))

RECURSIVE IntDigits(_)
IntDigits(j) ==
  IF j < 10 THEN <<DigitChars[j + 1]>>
  ELSE Append(IntDigits(j \div 10), DigitChars[(j % 10) + 1])

DecimalExponentNear(x, est) ==
  CHOOSE n \in (est - 2)..(est + 2) : BelowPow10(x, n) /\ ~BelowPow10(x, n - 1)

\* the n with 10^(n-1) <= x < 10^n, for a double x > 0
DecimalExponent(x) ==
  DecimalExponentNear(x, ((NBitLen(FNum(x)) - FDenBits(x) - 1) * 3) \div 10)

Least(S) == CHOOSE k \in S : \A j \in S : k <= j

\* the least number of digits, with n0 = DecimalExponent(x), that reads back
ShortestLength(x, n0) ==
  Least({k \in 1..17 : k = 17 \/ TryDigits(x, k - n0) # <<>>})

\* digits D and exponent n: the decimal 0.D * 10^n
LayoutDecimal(D, n) ==
  IF Len(D) <= n /\ n <= 21 THEN D \o Repeat("0", n - Len(D))
  ELSE IF 0 < n /\ n <= 21
  THEN SubSeq(D, 1, n) \o <<".">> \o SubSeq(D, n + 1, Len(D))
  ELSE IF 0 - 6 < n /\ n <= 0
  THEN <<"0", ".">> \o Repeat("0", 0 - n) \o D
  ELSE (IF Len(D) = 1 THEN D ELSE <<D[1], ".">> \o SubSeq(D, 2, Len(D)))
       \o <<"e", IF n >= 1 THEN "+" ELSE "-">>
       \o IntDigits(IF n >= 1 THEN n - 1 ELSE 1 - n)

ShortestAt(x, n0, k0, all) ==
  LayoutDecimal(StripZeros(all), n0 + (Len(all) - k0))

ShortestWith(x, n0, k0) ==
  ShortestAt(x, n0, k0, NDigits(TryDigits(x, k0 - n0)))

ShortestFrom(x, n0) == ShortestWith(x, n0, ShortestLength(x, n0))

\* x > 0
PositiveToString(x) == ShortestFrom(x, DecimalExponent(x))

\* String(x) for a double x
NumberToString(x) ==
  IF x.m = <<>> THEN <<"0">>
  ELSE (IF x.sign < 0 THEN <<"-">> ELSE <<>>)
       \o PositiveToString([x EXCEPT !.sign = 1])

(***************************************************************************)
(* Program constants and pure functions of sendBatchTransfer.ts.           *)
(***************************************************************************)
MAX_BATCH_SIZE == 500
DEFAULT_INTERVAL == 10
AddressHexDigits == 40

ADDRESS_ZERO == <<"0", "x">> \o Repeat("0", AddressHexDigits)

HexChars ==
  {"0", "1", "2", "3", "4", "5", "6", "7", "8", "9",
   "a", "b", "c", "d", "e", "f", "A", "B", "C", "D", "E", "F"}

\* /^0x[\dA-Fa-f]{40}$/.test(line)
addressRegex(line) ==
  /\ Len(line) = AddressHexDigits + 2
  /\ line[1] = "0"
  /\ line[2] = "x"
  /\ \A j \in 3..Len(line) : line[j] \in HexChars

\* an optional task parameter is <<>> (not given) or <<v>>; this is x ?? d
Coalesce(x, d) == IF x = <<>> THEN d ELSE x[1]

\* The lines a file may hold, by name, and their text.
LineNames == {"addrA", "addrB", "addrC", "zero", "junk", "short", "upperX"}

Text(name) ==
  CASE name = "addrA"  -> <<"0", "x">> \o Repeat("a", AddressHexDigits)
    [] name = "addrB"  -> <<"0", "x">> \o Repeat("B", AddressHexDigits)
    [] name = "addrC"  -> <<"0", "x", "1", "f">> \o Repeat("9", AddressHexDigits - 2)
    [] name = "zero"   -> ADDRESS_ZERO
    [] name = "junk"   -> <<"n", "o", "t", "-", "a", "n", "-", "a", "d", "d", "r", "e", "s", "s">>
    [] name = "short"  -> <<"0", "x">> \o Repeat("a", AddressHexDigits - 1)
    [] name = "upperX" -> <<"0", "X">> \o Repeat("a", AddressHexDigits)

\* the handler without the return of line 137
KeepsLineAndZero(name) == addressRegex(Text(name))

\* the 'line' handler: whether the line is pushed onto addresses
KeepsLine(name) == addressRegex(Text(name)) /\ Text(name) # ADDRESS_ZERO

\* lines 131-139: the 'line' handler, from the array so far to the array after
OnLineHandler(kept, name) == IF KeepsLine(name) THEN Append(kept, name) ELSE kept

\* value.indexOf('.')
IndexOfPoint(value) ==
  IF \E j \in 1..Len(value) : value[j] = "."
  THEN (CHOOSE j \in 1..Len(value) :
          value[j] = "." /\ \A t \in 1..(j - 1) : value[t] # ".") - 1
  ELSE 0 - 1

\* formatWithDecimals padding with `decimals` zeros whatever the digits after
\* the point
formatPaddingAll(value, decimals) ==
  [threw |-> decimals < 0,
   value |-> SelectSeq(value, LAMBDA c : c # ".") \o Repeat("0", decimals)]

\* formatWithDecimals: [threw, value]; '0'.repeat(n) throws a RangeError for n < 0
formatWithDecimals(value, decimals) ==
  LET pointIndex == IndexOfPoint(value)
      length     == Len(value) - pointIndex - 1
  IN  IF pointIndex = 0 - 1
      THEN [threw |-> decimals < 0,
            value |-> value \o Repeat("0", decimals)]
      ELSE [threw |-> decimals - length < 0,
            value |-> SubSeq(value, 1, pointIndex)
                      \o SubSeq(value, pointIndex + 2, Len(value))
                      \o Repeat("0", decimals - length)]

\* BigNumber.from(str) accepts /^-?[0-9]+$/ ; only naturals arise here
IsBigNumberString(str) == str # <<>> /\ \A j \in 1..Len(str) : IsDigit(str[j])

\* arr.slice(start, end) takes the positions SliceFrom .. SliceTo - 1 (from 0):
\* a negative index counts from the end
SliceIndex(length, index) ==
  IF index < 0 THEN Max(length + index, 0) ELSE Min(index, length)
SliceFrom(arr, start) == SliceIndex(Len(arr), start)
SliceTo(arr, end) == SliceIndex(Len(arr), end)
Slice(arr, start, end) == SubSeq(arr, SliceFrom(arr, start) + 1, SliceTo(arr, end))

\* Values Math.random() can return: 0, 1/2 and 1 - 2^-52, the largest of the
\* 52-bit fractions V8 draws from.
RandomValues ==
  {FZero,
   FRound(1, <<1>>, 0 - 1, FALSE),
   FRound(1, NSub(NShl(<<1>>, DoublePrecision - 1), <<1>>),
          1 - DoublePrecision, FALSE)}

\* Math.floor(Math.random() * (hi - lo + 1) + lo), for each value of Math.random()
RandomInt(lo, hi) ==
  {FFloor(FAdd(FMul(r, FFromInt(hi - lo + 1)), FFromInt(lo))) : r \in RandomValues}

(***************************************************************************)
(* Inputs of a run.                                                        *)
(***************************************************************************)
MaxLines == 4
MaxBatchArg == 2
MaxIntervalArg == 1
MaxSubmissions == 3

\* the file is a prefix of these lines
MasterFile == <<"addrA", "junk", "addrB", "addrA", "zero", "addrC", "short", "upperX">>
Files == {SubSeq(MasterFile, 1, n) : n \in 0..Min(MaxLines, Len(MasterFile))}

\* --amount 1 and --amount 0.1, as the doubles the argument parser produces
Amounts == {FFromDecimal(<<1>>, 0), FFromDecimal(<<1>>, 0 - 1)}

TooLargeBatch == MAX_BATCH_SIZE + 100
SizeArgs == ((0 - 1)..MaxBatchArg) \cup {TooLargeBatch}
IntervalArgs == 1..MaxIntervalArg
Optional(S) == {<<>>} \cup {<<v>> : v \in S}

TaskArgs(sizes) ==
  [file : Files, amount : Amounts, tokenNative : BOOLEAN,
   minBatchSize : Optional(sizes), maxBatchSize : Optional(sizes),
   minInterval : Optional(IntervalArgs), maxInterval : Optional(IntervalArgs)]

tokenAddress == "0xToken"
Signer == "0xSigner"
Owners == {Signer, "0xOther"}
Decimals == {0, 18}

\* Amounts for the formatting alone: n / 10^p for each pair <<n, p>>, from
\* whole numbers to MaxFraction digits after the point, and the token's decimals
MaxFraction == 7
AmountPairs == {1, 5, 15, 1234} \X (0..MaxFraction)
AmountOf == [pr \in AmountPairs |-> FFromDecimal(<<pr[1]>>, 0 - pr[2])] @@ <<>>
FormatAmounts == {AmountOf[pr] : pr \in AmountPairs}
FormatDecimals == {0, 1, 2, 6, 7, 18}

\* amount.toString() and (quantity * amount).toString(), tabulated once
AmountText == [a \in Amounts \cup FormatAmounts |-> NumberToString(a)] @@ <<>>
ProductText ==
  [q \in 0..Len(MasterFile), a \in Amounts |-> NumberToString(FMul(FFromInt(q), a))]
    @@ <<>>

\* the random draws of the loop, tabulated once
DrawArgs == SizeArgs \cup IntervalArgs \cup {MAX_BATCH_SIZE, DEFAULT_INTERVAL}
Draws ==
  [lo \in DrawArgs, hi \in DrawArgs |-> IF lo <= hi THEN RandomInt(lo, hi) ELSE {}]
    @@ <<>>

VARIABLES taskArgs, recording, pc, thrown, sender, lineNo, parsed, addresses,
          decimals, amountFormatted, tokenBalance, owner, i, batchSize, interval,
          inFlight, timers, events

vars == <<taskArgs, recording, pc, thrown, sender, lineNo, parsed, addresses,
          decimals, amountFormatted, tokenBalance, owner, i, batchSize, interval,
          inFlight, timers, events>>

minBatchSize == Coalesce(taskArgs.minBatchSize, MAX_BATCH_SIZE)
maxBatchSize == Coalesce(taskArgs.maxBatchSize, MAX_BATCH_SIZE)
minInterval == Coalesce(taskArgs.minInterval, DEFAULT_INTERVAL)
maxInterval == Coalesce(taskArgs.maxInterval, DEFAULT_INTERVAL)
quantity == Len(addresses)

\* events is the history of what the run did; it is kept when recording
Log(e) == events' = IF recording THEN Append(events, e) ELSE events
Submitted == SelectSeq(events, LAMBDA e : e.type = "submit")

Throw(error) == pc' = "error" /\ thrown' = error

InitWith(sizes) ==
  /\ taskArgs \in TaskArgs(sizes)
  /\ pc = "start"
  /\ thrown = "none"
  /\ sender = ""
  /\ lineNo = 0
  /\ parsed = <<>>
  /\ addresses = <<>>
  /\ decimals = 0
  /\ amountFormatted = <<>>
  /\ tokenBalance = <<>>
  /\ owner = ""
  /\ i = 0
  /\ batchSize = 0
  /\ interval = 0
  /\ inFlight = 0
  /\ timers = 0
  /\ events = <<>>

Init == recording = TRUE /\ InitWith(SizeArgs)

\* the checks of lines 52-59 without the check of the cap of lines 60-61
ConfigErrorWithoutCap ==
  IF minBatchSize > maxBatchSize THEN "minBatchSize is greater than maxBatchSize"
  ELSE IF minInterval > maxInterval THEN "minInterval is greater than maxInterval"
  ELSE "none"

\* the checks of lines 52-62 without the check of the intervals of lines 56-59
ConfigErrorWithoutIntervals ==
  IF minBatchSize > maxBatchSize THEN "minBatchSize is greater than maxBatchSize"
  ELSE IF maxBatchSize > MAX_BATCH_SIZE THEN "maxBatchSize is greater than MAX_BATCH_SIZE"
  ELSE "none"

\* lines 52-62: the three checks on the configuration
ConfigError ==
  IF minBatchSize > maxBatchSize THEN "minBatchSize is greater than maxBatchSize"
  ELSE IF minInterval > maxInterval THEN "minInterval is greater than maxInterval"
  ELSE IF maxBatchSize > MAX_BATCH_SIZE THEN "maxBatchSize is greater than MAX_BATCH_SIZE"
  ELSE "none"

CheckConfig ==
  /\ pc = "start"
  /\ IF ConfigError # "none"
     THEN Throw(ConfigError)
     ELSE pc' = "getSigners" /\ thrown' = thrown
  /\ UNCHANGED <<taskArgs, recording, lineNo, parsed, sender, addresses, decimals, amountFormatted,
                 tokenBalance, owner, i, batchSize, interval, inFlight, timers, events>>

\* line 64: const [sender] = await ethers.getSigners()
GetSigners ==
  /\ pc = "getSigners"
  /\ sender' = Signer
  /\ pc' = "getBalance"
  /\ Log([type |-> "read", what |-> "getSigners"])
  /\ UNCHANGED <<taskArgs, recording, lineNo, parsed, thrown, addresses, decimals, amountFormatted,
                 tokenBalance, owner, i, batchSize, interval, inFlight, timers>>

\* lines 66-68: the sender's balance is read and printed
GetBalance ==
  /\ pc = "getBalance"
  /\ pc' = "readFile"
  /\ Log([type |-> "read", what |-> "sender.getBalance"])
  /\ UNCHANGED <<taskArgs, recording, lineNo, parsed, thrown, sender, addresses, decimals,
                 amountFormatted, tokenBalance, owner, i, batchSize, interval,
                 inFlight, timers>>

\* lines 131-139: readline emits the next line of the file to the handler
OnLine ==
  /\ pc = "readFile"
  /\ lineNo < Len(taskArgs.file)
  /\ lineNo' = lineNo + 1
  /\ parsed' = OnLineHandler(parsed, taskArgs.file[lineNo + 1])
  /\ UNCHANGED <<taskArgs, recording, pc, thrown, sender, addresses, decimals,
                 amountFormatted, tokenBalance, owner, i, batchSize, interval,
                 inFlight, timers, events>>

\* lines 70-71, 140-142: after the last line readline emits 'close', the
\* promise resolves with the array and the task has its addresses
ReadFile ==
  /\ pc = "readFile"
  /\ lineNo = Len(taskArgs.file)
  /\ addresses' = parsed
  /\ pc' = "decimals"
  /\ Log([type |-> "read", what |-> "file"])
  /\ UNCHANGED <<taskArgs, recording, lineNo, parsed, thrown, sender, decimals,
                 amountFormatted, tokenBalance, owner, i, batchSize, interval,
                 inFlight, timers>>

\* line 76: amountFormatted is assigned unless formatWithDecimals threw
FormatAmount(formatted) ==
  IF formatted.threw
  THEN Throw("RangeError") /\ amountFormatted' = amountFormatted
  ELSE /\ amountFormatted' = formatted.value
       /\ pc' = "balanceOf"
       /\ thrown' = thrown

\* lines 74-76: decimals = await Token.decimals(); amountFormatted
ReadDecimalsFrom(answers) ==
  /\ pc = "decimals"
  /\ \E d \in answers :
       /\ decimals' = d
       /\ FormatAmount(formatWithDecimals(AmountText[taskArgs.amount], d))
  /\ Log([type |-> "read", what |-> "decimals"])
  /\ UNCHANGED <<taskArgs, recording, lineNo, parsed, sender, addresses,
                 tokenBalance, owner, i, batchSize, interval, inFlight, timers>>

ReadDecimals == ReadDecimalsFrom(Decimals)

\* what the batcher may hold: nothing, one unit less than quantity times the
\* formatted amount, exactly that, or more than twice that
ExactCost == NMul(NFromDigits(amountFormatted), NFromInt(quantity))
BalancesAround(cost) ==
  {<<>>, cost, NAdd(NMulSmall(cost, 2), <<1>>)}
    \cup (IF cost = <<>> THEN {} ELSE {NSub(cost, <<1>>)})
Balances == BalancesAround(ExactCost)

\* lines 85-89: tokenBalance.lt(expectedCost), BigNumber.from(expectedCost) first
CompareCost(balance, expectedCost) ==
  IF expectedCost.threw THEN Throw("RangeError")
  ELSE IF ~IsBigNumberString(expectedCost.value) THEN Throw("invalid BigNumber string")
  ELSE IF NCmp(balance, NFromDigits(expectedCost.value)) < 0
       THEN Throw("Insufficient funds")
  ELSE pc' = "owner" /\ thrown' = thrown

\* lines 84-89: expectedCost and the comparison with the batcher's balance
CostCheck(balance) ==
  CompareCost(balance,
              formatWithDecimals(ProductText[quantity, taskArgs.amount], decimals))

\* line 79: let tokenBalance = await Token.balanceOf(batcherAddress)
ReadTokenBalance ==
  /\ pc = "balanceOf"
  /\ \E balance \in Balances :
       /\ tokenBalance' = balance
       /\ IF taskArgs.tokenNative
          THEN pc' = "nativeBalance" /\ thrown' = thrown
          ELSE CostCheck(balance)
  /\ Log([type |-> "read", what |-> "balanceOf"])
  /\ UNCHANGED <<taskArgs, recording, lineNo, parsed, sender, addresses, decimals, amountFormatted,
                 owner, i, batchSize, interval, inFlight, timers>>

\* lines 80-82: if (tokenNative) tokenBalance = await provider.getBalance(batcherAddress)
ReadNativeBalance ==
  /\ pc = "nativeBalance"
  /\ \E balance \in Balances :
       /\ tokenBalance' = balance
       /\ CostCheck(balance)
  /\ Log([type |-> "read", what |-> "provider.getBalance"])
  /\ UNCHANGED <<taskArgs, recording, lineNo, parsed, sender, addresses, decimals, amountFormatted,
                 owner, i, batchSize, interval, inFlight, timers>>

\* a comparison that lets every account pass
IsOwnerAlways(account, signer) == TRUE

\* the comparison of line 97
IsOwner(account, signer) == account = signer

\* lines 91-99: the owner of the batcher must be the sender
ReadOwner ==
  /\ pc = "owner"
  /\ \E account \in Owners :
       /\ owner' = account
       /\ IF ~IsOwner(account, sender)
          THEN Throw("Sender is not the owner of the contract")
          ELSE pc' = "loop" /\ thrown' = thrown
  /\ Log([type |-> "read", what |-> "owner"])
  /\ UNCHANGED <<taskArgs, recording, lineNo, parsed, sender, addresses, decimals, amountFormatted,
                 tokenBalance, i, batchSize, interval, inFlight, timers>>

\* the asset argument without the test of tokenNative
AssetAlwaysToken == tokenAddress

\* line 110: tokenNative ? ADDRESS_ZERO : tokenAddress
Asset == IF taskArgs.tokenNative THEN "ADDRESS_ZERO" ELSE tokenAddress

\* lines 104-106: the drawn size is cut to what is left after the cursor
Clip(size, cursor, length) == IF cursor + size > length THEN length - cursor ELSE size

\* the call of batchTransfer without its await: the loop goes on at once
AfterSubmitWithoutAwait == "loop"

\* where the task is after it has called batchTransfer: awaiting its result
AfterSubmit == "batchTransfer"

\* the timer started without its await: the loop goes on at once
AfterAcceptedWithoutWait == "loop"

\* where the task is after batchTransfer resolved: awaiting the timer
AfterAccepted == "setTimeout"

\* where the task is after its timer has fired: the cursor moves on
AfterWait(cursor, size) == cursor + size

\* lines 102-110: one pass of the loop up to the call of batchTransfer
SubmitBatch ==
  /\ pc = "loop"
  /\ i < Len(addresses)
  /\ Len(Submitted) < MaxSubmissions
  /\ \E drawn \in Draws[minBatchSize, maxBatchSize] :
       LET size == Clip(drawn, i, Len(addresses))
       IN  /\ batchSize' = size
           /\ Log([type |-> "submit", asset |-> Asset, amount |-> amountFormatted,
                   batch |-> Slice(addresses, i, i + size),
                   first |-> SliceFrom(addresses, i), at |-> i, size |-> size])
  /\ inFlight' = inFlight + 1
  /\ pc' = AfterSubmit
  /\ UNCHANGED <<taskArgs, recording, lineNo, parsed, thrown, sender, addresses, decimals,
                 amountFormatted, tokenBalance, owner, i, interval, timers>>

\* line 102: the loop ends when the cursor is not below the length
LoopExit ==
  /\ pc = "loop"
  /\ ~(i < Len(addresses))
  /\ pc' = "done"
  /\ UNCHANGED <<taskArgs, recording, lineNo, parsed, thrown, sender, addresses, decimals,
                 amountFormatted, tokenBalance, owner, i, batchSize, interval,
                 inFlight, timers, events>>

\* lines 110-115: batchTransfer resolved; the interval is drawn, the timer starts
TxAccepted ==
  /\ pc = "batchTransfer"
  /\ inFlight' = inFlight - 1
  /\ \E minutes \in Draws[minInterval, maxInterval] :
       /\ interval' = minutes
       /\ Log([type |-> "wait", minutes |-> minutes, at |-> i])
  /\ timers' = timers + 1
  /\ pc' = AfterAccepted
  /\ UNCHANGED <<taskArgs, recording, lineNo, parsed, thrown, sender, addresses, decimals,
                 amountFormatted, tokenBalance, owner, i, batchSize>>

\* line 110: batchTransfer rejected; the exception leaves the action
TxRejected ==
  /\ pc = "batchTransfer"
  /\ inFlight' = inFlight - 1
  /\ Throw("batchTransfer rejected")
  /\ Log([type |-> "rejected", at |-> i])
  /\ UNCHANGED <<taskArgs, recording, lineNo, parsed, sender, addresses, decimals, amountFormatted,
                 tokenBalance, owner, i, batchSize, interval, timers>>

\* lines 115-117: the timer fires; i += batchSize
TimerFires ==
  /\ pc = "setTimeout"
  /\ timers > 0
  /\ timers' = timers - 1
  /\ i' = AfterWait(i, batchSize)
  /\ pc' = "loop"
  /\ Log([type |-> "waited", at |-> i])
  /\ UNCHANGED <<taskArgs, recording, lineNo, parsed, thrown, sender, addresses, decimals,
                 amountFormatted, tokenBalance, owner, batchSize, interval, inFlight>>

Next ==
  \/ CheckConfig
  \/ GetSigners
  \/ GetBalance
  \/ OnLine
  \/ ReadFile
  \/ ReadDecimals
  \/ ReadTokenBalance
  \/ ReadNativeBalance
  \/ ReadOwner
  \/ SubmitBatch
  \/ LoopExit
  \/ TxAccepted
  \/ TxRejected
  \/ TimerFires

Spec == Init /\ [][Next]_vars

\* Runs without the history, over the batch sizes that keep the cursor from
\* running off below zero.  Once in the loop the task goes on whenever it can:
\* it resumes when batchTransfer settles and when the timer fires.
LiveSizeArgs == (0..MaxBatchArg) \cup {TooLargeBatch}
LiveInit == recording = FALSE /\ InitWith(LiveSizeArgs)
\* Math.random does not return the draw that leaves the cursor in place for
\* ever: a pass that can move the cursor on and off is at some point moved on.
LoopStep == SubmitBatch \/ LoopExit \/ TxAccepted \/ TxRejected \/ TimerFires
Advance == SubmitBatch /\ batchSize' # 0
LiveSpec == LiveInit /\ [][Next]_vars /\ WF_vars(LoopStep) /\ SF_vars(Advance)

\* The reading of the file alone, over every file of up to MaxParseLines lines:
\* the task is at line 70, about to call parseAddressesFile.
MaxParseLines == 4
ParseFiles == UNION {[1..n -> LineNames] : n \in 0..MaxParseLines}
ParseInit ==
  /\ recording = TRUE
  /\ taskArgs \in [file : ParseFiles, amount : {FFromDecimal(<<1>>, 0)},
                    tokenNative : {FALSE}, minBatchSize : {<<>>},
                    maxBatchSize : {<<>>}, minInterval : {<<>>},
                    maxInterval : {<<>>}]
  /\ pc = "readFile"
  /\ thrown = "none"
  /\ sender = Signer
  /\ lineNo = 0
  /\ parsed = <<>>
  /\ addresses = <<>>
  /\ decimals = 0
  /\ amountFormatted = <<>>
  /\ tokenBalance = <<>>
  /\ owner = ""
  /\ i = 0
  /\ batchSize = 0
  /\ interval = 0
  /\ inFlight = 0
  /\ timers = 0
  /\ events = <<[type |-> "read", what |-> "getSigners"],
                [type |-> "read", what |-> "sender.getBalance"]>>
ParseNext == OnLine \/ ReadFile
ParseSpec == ParseInit /\ [][ParseNext]_vars

\* The formatting of the amount alone, over FormatAmounts and FormatDecimals:
\* the task is at line 74, with the file of one address read.
FormatInit ==
  /\ recording = TRUE
  /\ taskArgs \in [file : {<<"addrA">>}, amount : FormatAmounts,
                    tokenNative : {FALSE}, minBatchSize : {<<>>},
                    maxBatchSize : {<<>>}, minInterval : {<<>>},
                    maxInterval : {<<>>}]
  /\ pc = "decimals"
  /\ thrown = "none"
  /\ sender = Signer
  /\ lineNo = 1
  /\ parsed = <<"addrA">>
  /\ addresses = <<"addrA">>
  /\ decimals = 0
  /\ amountFormatted = <<>>
  /\ tokenBalance = <<>>
  /\ owner = ""
  /\ i = 0
  /\ batchSize = 0
  /\ interval = 0
  /\ inFlight = 0
  /\ timers = 0
  /\ events = <<[type |-> "read", what |-> "getSigners"],
                [type |-> "read", what |-> "sender.getBalance"],
                [type |-> "read", what |-> "file"]>>
FormatNext == ReadDecimalsFrom(FormatDecimals)
FormatSpec == FormatInit /\ [][FormatNext]_vars

(***************************************************************************)
(* The history of a run, as the claims read it.                            *)
(***************************************************************************)
Last(seq) == seq[Len(seq)]

RECURSIVE Concat(_)
Concat(seqs) == IF seqs = <<>> THEN <<>> ELSE Head(seqs) \o Concat(Tail(seqs))

RECURSIVE Sum(_)
Sum(seq) == IF seq = <<>> THEN 0 ELSE Head(seq) + Sum(Tail(seq))

Batches == [k \in 1..Len(Submitted) |-> Submitted[k].batch]
BatchSizes == [k \in 1..Len(Submitted) |-> Submitted[k].size]

\* the positions of the events that are submissions
SubmitIndexes == {k \in 1..Len(events) : events[k].type = "submit"}

\* the configuration passed the checks of lines 52-62
ConfigValid ==
  /\ minBatchSize <= maxBatchSize
  /\ maxBatchSize <= 500
  /\ minInterval <= maxInterval

\* C1: in a run that passed preflight, had every submission accepted and ended
\* normally, the batches submitted, concatenated in submission order, are
\* exactly the recipient list, and the batch sizes sum to the recipient count.
C1_BatchesPartitionRecipients ==
  pc = "done" =>
    /\ Concat(Batches) = addresses
    /\ Sum(BatchSizes) = quantity

\* C2: every batch that is followed by another one has between minBatchSize
\* and maxBatchSize recipients, and the last batch of a run that ended normally
\* has exactly recipients.length minus the cursor at which it was drawn.
C2_BatchSizesInRange ==
  \A k \in 1..Len(Submitted) :
    /\ k < Len(Submitted) =>
         /\ minBatchSize <= Len(Submitted[k].batch)
         /\ Len(Submitted[k].batch) <= maxBatchSize
    /\ (k = Len(Submitted) /\ pc = "done") =>
         Len(Submitted[k].batch) = quantity - Submitted[k].at

\* C3: with every submission answered and every pacing wait ending, a run
\* that has passed preflight and entered the loop ends: normally when its
\* submissions are accepted, in an error when one is rejected.
C3_LoopTerminates == (pc = "loop") ~> (pc \in {"done", "error"})

\* C4: when minBatchSize > maxBatchSize, minInterval > maxInterval or
\* maxBatchSize > 500, the run does nothing but end in an error: it never gets
\* past the checks and never submits a batch.
C4_InvalidConfigRejected ==
  ~ConfigValid =>
    /\ pc \in {"start", "error"}
    /\ pc = "error" => thrown = ConfigError /\ thrown # "none"
    /\ events = <<>>
    /\ inFlight = 0

\* C4: a run with minBatchSize = maxBatchSize = 600 has ended in an error
C4_Witness ==
  /\ taskArgs.minBatchSize = <<600>>
  /\ taskArgs.maxBatchSize = <<600>>
  /\ pc = "error"

\* the run got past the comparison of the balance with the cost
CostPassed ==
  \/ pc \in {"owner", "loop", "batchTransfer", "setTimeout", "done"}
  \/ thrown \in {"Sender is not the owner of the contract", "batchTransfer rejected"}

\* C5: the run is rejected for its funds exactly when the balance read last
\* (native when tokenNative is set, the token's otherwise) is less than
\* recipient count times the formatted amount: a balance equal to that passes.
C5_RejectedExactlyWhenShort ==
  /\ thrown = "Insufficient funds" =>
       NCmp(tokenBalance, ExactCost) < 0 /\ Submitted = <<>>
  /\ CostPassed => NCmp(tokenBalance, ExactCost) >= 0

\* C6: once an owner other than the signer has been read the run has ended in
\* an error without a submission, and a batch is submitted only when the owner
\* read equals the signer.
C6_OnlyOwnerSubmits ==
  /\ (owner # "" /\ owner # sender) =>
       /\ pc = "error"
       /\ thrown = "Sender is not the owner of the contract"
       /\ Submitted = <<>>
       /\ inFlight = 0
  /\ Submitted # <<>> => owner = sender

\* C6: the owner read is not the signer
C6_Witness == owner = "0xOther" /\ sender = Signer /\ pc = "error"

\* C7: at most one submission is in flight and at most one timer is pending,
\* never both; a batch is drawn with neither, and every submission but the
\* first comes right after the end of the wait that followed the acceptance of
\* the submission before it.
C7_OneAtATime ==
  /\ inFlight + timers <= 1
  /\ pc = "loop" => inFlight = 0 /\ timers = 0
  /\ \A k \in 2..Len(events) :
       /\ events[k].type = "submit" => events[k - 1].type \in {"read", "waited"}
       /\ events[k].type = "waited" => events[k - 1].type = "wait"
       /\ events[k].type = "wait" => events[k - 1].type = "submit"

\* C7: a second submission is in flight
C7_Witness == Len(Submitted) = 2 /\ inFlight = 1 /\ timers = 0

\* C8: between two consecutive submissions there is exactly one pacing wait,
\* begun after the acceptance of the earlier and ended before the later, and
\* it lasts a whole number of minutes from minInterval to maxInterval.
C8_OneWaitInRange ==
  \A k \in SubmitIndexes :
    (\E later \in SubmitIndexes : later > k) =>
      /\ k + 3 \in SubmitIndexes
      /\ events[k + 1].type = "wait"
      /\ events[k + 2].type = "waited"
      /\ minInterval <= events[k + 1].minutes
      /\ events[k + 1].minutes <= maxInterval

\* C9: when a submission is rejected the run ends in an error with that
\* submission as the last thing done: nothing is submitted after it, no wait
\* is started, the cursor stays where the rejected batch was drawn, and no
\* recipient at or after the cursor is in a batch that was accepted.
C9_RejectionStopsTheLoop ==
  thrown = "batchTransfer rejected" =>
    /\ pc = "error"
    /\ Last(events).type = "rejected"
    /\ events[Len(events) - 1] = Last(Submitted)
    /\ inFlight = 0 /\ timers = 0
    /\ i = Last(Submitted).at
    /\ \A k \in 1..(Len(Submitted) - 1) :
         Submitted[k].batch # <<>> =>
           Submitted[k].first + Len(Submitted[k].batch) <= i

\* C10: with minBatchSize = maxBatchSize = K >= 1, a run over n recipients
\* that ended normally submitted ceil(n / K) batches, each but the last of K
\* recipients and the last of n mod K (K when that is 0).
C10_FixedSizeBatches ==
  (pc = "done" /\ minBatchSize = maxBatchSize /\ minBatchSize >= 1) =>
    /\ Len(Submitted) = (quantity + minBatchSize - 1) \div minBatchSize
    /\ \A k \in 1..(Len(Submitted) - 1) : Len(Submitted[k].batch) = minBatchSize
    /\ Submitted # <<>> =>
         Len(Last(Submitted).batch) =
           IF quantity % minBatchSize = 0 THEN minBatchSize
           ELSE quantity % minBatchSize

\* the lines of the model's files that are well-formed addresses, and the one
\* of them that is the all-zero address
WellFormedLines == {"addrA", "addrB", "addrC", "zero"}
AllZeroLines == {"zero"}
Wanted(name) == name \in WellFormedLines /\ name \notin AllZeroLines

\* the positions of the first n lines of the file that are to be kept
WantedUpTo(n) == {k \in 1..n : Wanted(taskArgs.file[k])}

\* out is the first n lines of the file without the lines not wanted: its
\* j-th element is the line at the j-th wanted position
IsWantedPrefix(out, n) ==
  /\ Len(out) = Cardinality(WantedUpTo(n))
  /\ \A k \in WantedUpTo(n) :
       out[Cardinality({m \in WantedUpTo(n) : m <= k})] = taskArgs.file[k]

\* C11: parseAddressesFile returns exactly the lines that match the address
\* pattern and are not the all-zero address, in input order with duplicates
\* kept; after any number of lines, malformed ones included, the array holds
\* the wanted ones among them, and the caller has its result only when every
\* line has been consumed.
C11_ParseKeepsWantedLines ==
  /\ IsWantedPrefix(parsed, lineNo)
  /\ pc = "readFile" => addresses = <<>>
  /\ pc # "readFile" =>
       /\ lineNo = Len(taskArgs.file)
       /\ IsWantedPrefix(addresses, Len(taskArgs.file))

\* C11: a file of a good address, a malformed line, the all-zero address and
\* another good address has been read to its end
C11_Witness ==
  /\ taskArgs.file = <<"addrA", "junk", "zero", "addrB">>
  /\ pc = "decimals"
  /\ addresses = <<"addrA", "addrB">>

\* the amount as the task was given it: n / 10^p
GivenPair == CHOOSE pr \in AmountPairs : AmountOf[pr] = taskArgs.amount

\* a decimal string: digits, or digits, a point and digits
IsDecimalString(str) ==
  /\ \A j \in 1..Len(str) : IsDigit(str[j]) \/ str[j] = "."
  /\ Cardinality({j \in 1..Len(str) : str[j] = "."}) <= 1
  /\ str # <<>> /\ IsDigit(str[1]) /\ IsDigit(str[Len(str)])

IntegerPart(str) == SelectSeq(SubSeq(str, 1, Len(str) - GivenPair[2]), IsDigit)
FractionPart(str) == SubSeq(str, Len(str) - GivenPair[2] + 1, Len(str))

\* the string of the amount and its digits after the point, as the amount
\* was given: 12.34 is "12.34" with 2 digits after the point
HasGivenDigits(str) ==
  /\ IsDecimalString(str)
  /\ NFromDigits(IntegerPart(str) \o FractionPart(str)) = <<GivenPair[1]>>
  /\ GivenPair[2] > 0 => str[Len(str) - GivenPair[2]] = "."

\* C12: for a decimal string with at most `decimals` digits after the point,
\* formatWithDecimals returns the digits without the point followed by zeros,
\* `decimals` digits after the integer part in all; read as an integer it is
\* the amount times 10^decimals.
C12_FormatScalesDecimalStrings ==
  (/\ pc # "decimals"
   /\ IsDecimalString(AmountText[taskArgs.amount])
   /\ GivenPair[2] <= decimals) =>
    /\ pc = "balanceOf"
    /\ HasGivenDigits(AmountText[taskArgs.amount])
    /\ amountFormatted =
         IntegerPart(AmountText[taskArgs.amount])
           \o FractionPart(AmountText[taskArgs.amount])
           \o Repeat("0", decimals - GivenPair[2])
    /\ Len(amountFormatted) =
         Len(IntegerPart(AmountText[taskArgs.amount])) + decimals
    /\ NFromDigits(amountFormatted) =
         NMul(<<GivenPair[1]>>, NPow10(decimals - GivenPair[2]))

\* C12: 12.34 has been formatted with 6 decimals
C12_Witness ==
  /\ GivenPair = <<1234, 2>>
  /\ decimals = 6
  /\ amountFormatted = <<"1", "2", "3", "4", "0", "0", "0", "0">>

\* C13: when the amount has more digits after the point than `decimals`, the
\* formatting ends in an error: no amount is returned and the run stops there
\* without a submission.
C13_TooManyDigitsIsAnError ==
  (pc # "decimals" /\ GivenPair[2] > decimals) =>
    /\ pc = "error"
    /\ thrown = "RangeError"
    /\ amountFormatted = <<>>
    /\ Submitted = <<>>

\* C14: every submission carries the amount formatted before the loop from
\* the amount parameter and the token's decimals (compared when the call is
\* made), the same as every submission before it, and the same asset: the
\* zero address when tokenNative is set and tokenAddress when it is not.
C14_SameAmountAndAsset ==
  /\ pc = "batchTransfer" =>
       Last(events).amount =
         formatWithDecimals(AmountText[taskArgs.amount], decimals).value
  /\ \A k \in 1..Len(events) :
       events[k].type = "submit" =>
         /\ events[k].amount = amountFormatted
         /\ events[k].asset =
              IF taskArgs.tokenNative THEN "ADDRESS_ZERO" ELSE "0xToken"

\* C14: three batches of the native asset have been submitted, 0.1 each
C14_Witness ==
  /\ Len(Submitted) = 3
  /\ taskArgs.tokenNative
  /\ decimals = 18
  /\ Len(amountFormatted) = 19

\* none of the four bounds was given
NoBoundGiven ==
  /\ taskArgs.minBatchSize = <<>> /\ taskArgs.maxBatchSize = <<>>
  /\ taskArgs.minInterval = <<>> /\ taskArgs.maxInterval = <<>>

\* C15: with none of the four bounds given the sizes are 500 and 500 and the
\* intervals 10 and 10, the checks pass, every batch followed by another has
\* 500 recipients and every pacing wait lasts 10 minutes.
C15_DefaultsApply ==
  NoBoundGiven =>
    /\ minBatchSize = 500 /\ maxBatchSize = 500
    /\ minInterval = 10 /\ maxInterval = 10
    /\ thrown \notin {"minBatchSize is greater than maxBatchSize",
                      "minInterval is greater than maxInterval",
                      "maxBatchSize is greater than MAX_BATCH_SIZE"}
    /\ \A k \in 1..(Len(Submitted) - 1) : Len(Submitted[k].batch) = 500
    /\ \A k \in 1..Len(events) :
         events[k].type = "wait" => events[k].minutes = 10

\* C16: when one of the three checks fails the run has ended at the checks:
\* it has not read the signer, a balance, the decimals, the owner or a line
\* of the file, and has made no call at all.
C16_ChecksComeFirst ==
  (\/ minBatchSize > maxBatchSize
   \/ minInterval > maxInterval
   \/ maxBatchSize > 500) =>
    /\ sender = ""
    /\ lineNo = 0 /\ parsed = <<>> /\ addresses = <<>>
    /\ amountFormatted = <<>>
    /\ tokenBalance = <<>>
    /\ owner = ""
    /\ \A k \in 1..Len(events) : events[k].type # "read"

\* C16: a run with minInterval 10 above maxInterval 1 has ended in an error
C16_Witness ==
  /\ taskArgs.minInterval = <<>>
  /\ taskArgs.maxInterval = <<1>>
  /\ thrown = "minInterval is greater than maxInterval"
  /\ pc = "error"

\* C17: the cursor is never below 0 nor above the number of recipients, and
\* each batch is drawn at a cursor not below the cursor of the batch before.
C17_CursorInRange ==
  /\ 0 <= i /\ i <= quantity
  /\ \A k \in 1..(Len(Submitted) - 1) : Submitted[k].at <= Submitted[k + 1].at

\* C18: every batch passed to batchTransfer has at least 1 and at most 500
\* recipients.
C18_BatchNeverEmpty ==
  \A k \in 1..Len(Submitted) :
    /\ 1 <= Len(Submitted[k].batch)
    /\ Len(Submitted[k].batch) <= 500

\* the recipients of the submissions that were accepted, in order
AcceptedIndexes ==
  {k \in SubmitIndexes : k < Len(events) /\ events[k + 1].type = "wait"}
RECURSIVE PaidUpTo(_)
PaidUpTo(n) ==
  IF n = 0 THEN <<>>
  ELSE PaidUpTo(n - 1) \o (IF n \in AcceptedIndexes THEN events[n].batch ELSE <<>>)
Paid == PaidUpTo(Len(events))

\* C19: in every state the batches accepted so far, concatenated in order,
\* are the first recipients of the list: none paid twice, none left out
\* before the last one paid.
C19_AcceptedIsPrefix ==
  /\ Len(Paid) <= quantity
  /\ Paid = SubSeq(addresses, 1, Len(Paid))

\* the number of events of a type
Count(type) == Cardinality({k \in 1..Len(events) : events[k].type = type})

\* C20: each pass of the loop makes one submission, then, once it is accepted,
\* one wait, and only then moves the cursor: at the head of the loop and at the
\* end of the run there are as many waits begun and ended as submissions, the
\* last of them after the last batch.
C20_OneWaitPerBatch ==
  /\ \A k \in 1..Len(events) :
       events[k].type = "submit" =>
         /\ k < Len(events) => events[k + 1].type \in {"wait", "rejected"}
         /\ k + 1 < Len(events) =>
              /\ events[k + 2].type = "waited"
              /\ events[k + 2].at = events[k].at
  /\ pc \in {"loop", "done"} =>
       /\ Count("wait") = Count("submit")
       /\ Count("waited") = Count("submit")
       /\ Count("submit") > 0 =>
            /\ Last(events).type = "waited"
            /\ i = events[Len(events) - 2].at + events[Len(events) - 2].size

\* C20: a run of two batches has ended
C20_Witness == pc = "done" /\ Count("submit") = 2 /\ Count("waited") = 2

====
